---- MODULE Spec2Model ----
(***************************************************************************)
(* Cross-chain bridge messages of types/msg/msg-bridge.go:                 *)
(*   - SmartChainAddress, the 20-byte foreign-chain address and its codec  *)
(*     (NewSmartChainAddress, SetBytes, IsEmpty, String, MarshalJSON,      *)
(*     UnmarshalJSON);                                                     *)
(*   - BindMsg and TransferOutMsg (constructors, GetSigners,               *)
(*     GetInvolvedAddresses, ValidateBasic, GetSignBytes).                 *)
(* Bytes are integers 0..255, texts and byte strings are sequences; a text *)
(* is a sequence of one-character strings.                                 *)
(***************************************************************************)
EXTENDS Integers, Sequences, FiniteSets, TLC

VARIABLES
    addr,   \* the SmartChainAddress object operated on ([20]byte)
    msg,    \* the current message (BindMsg or TransferOutMsg value), or NoMsg
    op,     \* name of the last operation
    arg,    \* input of the last operation
    ret,    \* value returned by the last operation
    err     \* TRUE iff the last operation returned a non-nil error

vars == <<addr, msg, op, arg, ret, err>>

----------------------------------------------------------------------------
(* Sizes.                                                                  *)

\* len(SmartChainAddress): type SmartChainAddress [20]byte
SmartChainAddressLen == 20

\* sdk.AddrLen, the fixed length of a native account address
AddrLen == 20

\* Longest byte string handed to SetBytes / encoded in a text input.
MaxInputLen == 22

\* Input lengths run over 0..ShortLen and (SmartChainAddressLen-ShortLen)..MaxInputLen.
ShortLen == 2

----------------------------------------------------------------------------
(* Generic helpers.                                                        *)

Min(a, b) == IF a < b THEN a ELSE b

\* Go slice expression s[from:] (0-based from).
SliceFrom(s, from) == SubSeq(s, from + 1, Len(s))

\* Go builtin copy(dst[off:], src) on a fixed array dst: copies
\* min(len(dst)-off, len(src)) elements, the rest of dst is left as it was.
CopyAt(dst, off, src) ==
    LET n == Min(Len(dst) - off, Len(src))
    IN  [i \in 1..Len(dst) |-> IF i > off /\ i <= off + n THEN src[i - off] ELSE dst[i]]

----------------------------------------------------------------------------
(* Hexadecimal text.                                                       *)

HexDigits == <<"0","1","2","3","4","5","6","7","8","9","a","b","c","d","e","f">>

IsHexDigit(c) == \E i \in 1..16 : HexDigits[i] = c

HexDigitValue(c) == (CHOOSE i \in 1..16 : HexDigits[i] = c) - 1

Has0xPrefix(input) == Len(input) >= 2 /\ input[1] = "0" /\ input[2] = "x"

\* ToHex: lowercase hexadecimal, two digits per byte.
HexAddress(a) ==
    [i \in 1..(2 * Len(a)) |->
        IF i % 2 = 1 THEN HexDigits[(a[(i + 1) \div 2] \div 16) + 1]
                     ELSE HexDigits[(a[i \div 2] % 16) + 1]]

\* Decoder of the textual form: lowercase hexadecimal, optionally prefixed
\* by 0x.  A text that is empty, of odd length or holds a non-digit is
\* rejected with an error and yields no bytes.
HexDecode(input) ==
    LET body == IF Has0xPrefix(input) THEN SliceFrom(input, 2) ELSE input
        bad  == \/ Len(input) = 0
                \/ Len(body) % 2 = 1
                \/ \E i \in 1..Len(body) : ~IsHexDigit(body[i])
    IN  IF bad
        THEN [bytes |-> <<>>, err |-> TRUE]
        ELSE [bytes |-> [i \in 1..(Len(body) \div 2) |->
                            16 * HexDigitValue(body[2 * i - 1]) + HexDigitValue(body[2 * i])],
              err   |-> FALSE]

----------------------------------------------------------------------------
(* SmartChainAddress.                                                      *)

\* var address SmartChainAddress
ZeroAddress == [i \in 1..SmartChainAddressLen |-> 0]

\* Plausible slip: the cut keeps one byte too few and also fires at len(b) = len(addr).
SetBytesOffByOne(a, b) ==
    LET b1 == IF Len(b) >= Len(a) THEN SliceFrom(b, Len(b) - 19) ELSE b
    IN  CopyAt(a, 20 - Len(b1), b1)

\* Plausible slip: the bytes are copied to the front of the array.
SetBytesLeftAligned(a, b) ==
    LET b1 == IF Len(b) > Len(a) THEN SliceFrom(b, Len(b) - 20) ELSE b
    IN  CopyAt(a, 0, b1)

\* func (addr *SmartChainAddress) SetBytes(b []byte): the new contents of addr.
SetBytes(a, b) ==
    LET b1 == IF Len(b) > Len(a) THEN SliceFrom(b, Len(b) - 20) ELSE b
    IN  CopyAt(a, 20 - Len(b1), b1)

\* Plausible slip: the raw text is stored when decoding fails.
NewSmartChainAddressRawOnError(text) ==
    LET d == HexDecode(text)
    IN  SetBytes(ZeroAddress, IF d.err THEN [i \in 1..Len(text) |-> 255] ELSE d.bytes)

\* func NewSmartChainAddress(addr string) SmartChainAddress
NewSmartChainAddress(text) ==
    LET hexBytes == HexDecode(text).bytes
    IN  SetBytes(ZeroAddress, hexBytes)

\* big.Int.SetBytes: the magnitude of the big-endian unsigned integer, kept
\* normalised (no leading zero digit); the empty sequence is the integer 0.
RECURSIVE BigSetBytes(_)
BigSetBytes(buf) ==
    IF Len(buf) = 0 THEN <<>>
    ELSE IF buf[1] = 0 THEN BigSetBytes(Tail(buf))
    ELSE buf

\* big.Int.Cmp(big.NewInt(0)) == 0 for a non-negative magnitude.
BigIsZero(mag) == Len(mag) = 0

\* Plausible slip: only the low-order byte is looked at.
IsEmptyLastByte(a) == a[Len(a)] = 0

\* func (addr SmartChainAddress) IsEmpty() bool
IsEmpty(a) == BigIsZero(BigSetBytes(a))

\* func (addr SmartChainAddress) String() string
String(a) == HexAddress(a)

\* Plausible slip: the quotes are left out.
MarshalJSONUnquoted(a) == String(a)

\* func (addr SmartChainAddress) MarshalJSON() ([]byte, error): the bytes.
MarshalJSON(a) == <<"\"">> \o String(a) \o <<"\"">>

\* func (addr *SmartChainAddress) UnmarshalJSON(input []byte) error:
\* the new contents of addr and the error.
UnmarshalJSON(a, input) ==
    LET d == HexDecode(SubSeq(input, 2, Len(input) - 1))
    IN  IF d.err THEN [addr |-> a, err |-> TRUE]
        ELSE [addr |-> SetBytes(a, d.bytes), err |-> FALSE]

----------------------------------------------------------------------------
(* Inputs of the address operations.                                       *)

InputLens == (0..ShortLen) \cup ((SmartChainAddressLen - ShortLen)..MaxInputLen)

\* A byte string of n distinct non-zero bytes: 0x11, 0x22, ..., 0xff, 0x10, ...
Pattern(n) == [i \in 1..n |-> (17 * i) % 256]

ByteInputs == {Pattern(n) : n \in InputLens} \cup {<<0>>}

OneHot(p, v) == [i \in 1..SmartChainAddressLen |-> IF i = p THEN v ELSE 0]

OneHotValues == {1}

\* Values a caller can hold in a SmartChainAddress variable before any call.
InitAddrs ==
    {ZeroAddress, [i \in 1..SmartChainAddressLen |-> 255]}
        \cup {OneHot(p, v) : p \in 1..SmartChainAddressLen, v \in OneHotValues}

DropLast(t) == SubSeq(t, 1, Len(t) - 1)

Corrupt(t, p) == [i \in 1..Len(t) |-> IF i = p THEN "z" ELSE t[i]]

WellFormedTexts ==
    {HexAddress(b) : b \in ByteInputs \ {<<>>}}
        \cup {<<"0", "x">> \o HexAddress(b) : b \in ByteInputs}

\* Texts the decoder rejects: empty, odd length, a non-digit first or last.
MalformedBases == {Pattern(1), Pattern(SmartChainAddressLen)}

MalformedTexts ==
    {<<>>}
        \cup {DropLast(HexAddress(b)) : b \in MalformedBases}
        \cup {Corrupt(HexAddress(b), 1) : b \in MalformedBases}
        \cup {<<"0", "x">> \o Corrupt(HexAddress(b), 2 * Len(b)) : b \in MalformedBases}

TextInputs == WellFormedTexts \cup MalformedTexts

Quote(t) == <<"\"">> \o t \o <<"\"">>

JsonInputs == {Quote(t) : t \in TextInputs}

----------------------------------------------------------------------------
(* JSON rendering (encoding/json).                                         *)

RECURSIVE Digits(_)
Digits(n) ==
    IF n < 10 THEN <<HexDigits[n + 1]>>
    ELSE Digits(n \div 10) \o <<HexDigits[(n % 10) + 1]>>

\* An integer field: a JSON number in decimal.
JsonInt(n) == IF n < 0 THEN <<"-">> \o Digits(-n) ELSE Digits(n)

RECURSIVE JsonEscape(_)
JsonEscape(t) ==
    IF Len(t) = 0 THEN <<>>
    ELSE (IF Head(t) \in {"\"", "\\"} THEN <<"\\", Head(t)>> ELSE <<Head(t)>>)
            \o JsonEscape(Tail(t))

\* A string field: quoted, with quote and backslash escaped.
JsonString(t) == <<"\"">> \o JsonEscape(t) \o <<"\"">>

\* A struct: {"tag":value,...} over the fields in the order given, no blanks.
RECURSIVE JsonMembers(_)
JsonMembers(members) ==
    IF Len(members) = 0 THEN <<>>
    ELSE JsonString(Head(members)[1]) \o <<":">> \o Head(members)[2]
            \o (IF Len(members) > 1 THEN <<",">> ELSE <<>>)
            \o JsonMembers(Tail(members))

JsonObject(members) == <<"{">> \o JsonMembers(members) \o <<"}">>

\* sdk.AccAddress as a JSON value: a string holding the address text.
AccAddressMarshalJSON(a) == Quote(HexAddress(a))

\* sdk.Coin as a JSON value.
CoinMarshalJSON(c) ==
    JsonObject(<< <<<<"d", "e", "n", "o", "m">>, JsonString(c.Denom)>>, <<<<"a", "m", "o", "u", "n", "t">>, JsonInt(c.Amount)>> >>)

\* sdk.Coin.IsPositive
CoinIsPositive(c) == c.Amount > 0

\* A keyed struct literal T{k1: v1, k2: v2, ...}: the zero value with the
\* listed fields assigned one after the other.
RECURSIVE KeyedLiteral(_, _, _)
KeyedLiteral(zero, keys, vals) ==
    IF Len(keys) = 0 THEN zero
    ELSE KeyedLiteral([zero EXCEPT ![Head(keys)] = vals[Head(keys)]], Tail(keys), vals)

----------------------------------------------------------------------------
(* BindMsg.                                                                *)

\* type BindMsg struct: the zero value.
ZeroBindMsg ==
    [type |-> "BindMsg", From |-> <<>>, Symbol |-> <<>>, Amount |-> 0,
     ContractAddress |-> ZeroAddress, ContractDecimals |-> 0, ExpireTime |-> 0]

\* Plausible slip: the struct declares its fields in the constructor's order.
BindMsgFieldsAmountFirst ==
    <<"From", "Amount", "Symbol", "ContractAddress", "ContractDecimals", "ExpireTime">>

\* type BindMsg struct: the fields in declaration order.
BindMsgFields ==
    <<"From", "Symbol", "Amount", "ContractAddress", "ContractDecimals", "ExpireTime">>

\* type BindMsg struct: the json tag of each field.
BindMsgJsonTag(f) ==
    CASE f = "From" -> <<"f", "r", "o", "m">>
      [] f = "Symbol" -> <<"s", "y", "m", "b", "o", "l">>
      [] f = "Amount" -> <<"a", "m", "o", "u", "n", "t">>
      [] f = "ContractAddress" -> <<"c", "o", "n", "t", "r", "a", "c", "t", "_", "a", "d", "d", "r", "e", "s", "s">>
      [] f = "ContractDecimals" -> <<"c", "o", "n", "t", "r", "a", "c", "t", "_", "d", "e", "c", "i", "m", "a", "l", "s">>
      [] f = "ExpireTime" -> <<"e", "x", "p", "i", "r", "e", "_", "t", "i", "m", "e">>

\* type BindMsg struct: each field rendered by its type.
BindMsgFieldJSON(m, f) ==
    CASE f = "From" -> AccAddressMarshalJSON(m.From)
      [] f = "Symbol" -> JsonString(m.Symbol)
      [] f = "Amount" -> JsonInt(m.Amount)
      [] f = "ContractAddress" -> MarshalJSON(m.ContractAddress)
      [] f = "ContractDecimals" -> JsonInt(m.ContractDecimals)
      [] f = "ExpireTime" -> JsonInt(m.ExpireTime)

\* func NewBindMsg(from, symbol, amount, contractAddress, contractDecimals, expireTime) BindMsg
NewBindMsg(from, symbol, amount, contractAddress, contractDecimals, expireTime) ==
    KeyedLiteral(ZeroBindMsg,
        <<"From", "Amount", "Symbol", "ContractAddress", "ContractDecimals", "ExpireTime">>,
        [From |-> from, Symbol |-> symbol, Amount |-> amount,
         ContractAddress |-> contractAddress, ContractDecimals |-> contractDecimals,
         ExpireTime |-> expireTime])

\* Plausible slip: two copies of the sender.
BindMsgGetSignersTwice(m) == <<m.From, m.From>>

\* func (msg BindMsg) GetSigners() []sdk.AccAddress
BindMsgGetSigners(m) == <<m.From>>

\* func (msg BindMsg) GetInvolvedAddresses() []sdk.AccAddress
BindMsgGetInvolvedAddresses(m) == BindMsgGetSigners(m)

\* Plausible slip: a zero amount passes.
BindMsgValidateBasicZeroAmount(m) ==
    IF Len(m.From) # AddrLen THEN "address length should be 20"
    ELSE IF Len(m.Symbol) = 0 THEN "symbol should not be empty"
    ELSE IF m.Amount < 0 THEN "amount should be larger than 0"
    ELSE IF IsEmpty(m.ContractAddress) THEN "contract address should not be empty"
    ELSE IF m.ContractDecimals < 0 THEN "decimal should be no less than 0"
    ELSE IF m.ExpireTime <= 0 THEN "expire time should be larger than 0"
    ELSE "nil"

\* func (msg BindMsg) ValidateBasic() error: the error text, "nil" for none.
BindMsgValidateBasic(m) ==
    IF Len(m.From) # AddrLen THEN "address length should be 20"
    ELSE IF Len(m.Symbol) = 0 THEN "symbol should not be empty"
    ELSE IF m.Amount <= 0 THEN "amount should be larger than 0"
    ELSE IF IsEmpty(m.ContractAddress) THEN "contract address should not be empty"
    ELSE IF m.ContractDecimals < 0 THEN "decimal should be no less than 0"
    ELSE IF m.ExpireTime <= 0 THEN "expire time should be larger than 0"
    ELSE "nil"

\* func (msg BindMsg) GetSignBytes() []byte: json.Marshal(msg)
BindMsgGetSignBytes(m) ==
    JsonObject([i \in 1..Len(BindMsgFields) |->
        <<BindMsgJsonTag(BindMsgFields[i]), BindMsgFieldJSON(m, BindMsgFields[i])>>])

----------------------------------------------------------------------------
(* TransferOutMsg.                                                         *)

\* sdk.Coin: the zero value.
ZeroCoin == [Denom |-> <<>>, Amount |-> 0]

\* type TransferOutMsg struct: the zero value.
ZeroTransferOutMsg ==
    [type |-> "TransferOutMsg", From |-> <<>>, To |-> ZeroAddress,
     Amount |-> ZeroCoin, ExpireTime |-> 0]

\* type TransferOutMsg struct: the fields in declaration order.
TransferOutMsgFields == <<"From", "To", "Amount", "ExpireTime">>

\* type TransferOutMsg struct: the json tag of each field.
TransferOutMsgJsonTag(f) ==
    CASE f = "From" -> <<"f", "r", "o", "m">>
      [] f = "To" -> <<"t", "o">>
      [] f = "Amount" -> <<"a", "m", "o", "u", "n", "t">>
      [] f = "ExpireTime" -> <<"e", "x", "p", "i", "r", "e", "_", "t", "i", "m", "e">>

\* type TransferOutMsg struct: each field rendered by its type.
TransferOutMsgFieldJSON(m, f) ==
    CASE f = "From" -> AccAddressMarshalJSON(m.From)
      [] f = "To" -> MarshalJSON(m.To)
      [] f = "Amount" -> CoinMarshalJSON(m.Amount)
      [] f = "ExpireTime" -> JsonInt(m.ExpireTime)

\* func NewTransferOutMsg(from, to, amount, expireTime) TransferOutMsg
NewTransferOutMsg(from, to, amount, expireTime) ==
    KeyedLiteral(ZeroTransferOutMsg, <<"From", "To", "Amount", "ExpireTime">>,
        [From |-> from, To |-> to, Amount |-> amount, ExpireTime |-> expireTime])

\* func (msg TransferOutMsg) GetSigners() []sdk.AccAddress
TransferOutMsgGetSigners(m) == <<m.From>>

\* func (msg TransferOutMsg) GetInvolvedAddresses() []sdk.AccAddress
TransferOutMsgGetInvolvedAddresses(m) == TransferOutMsgGetSigners(m)

\* Plausible slip: the destination check is left out.
TransferOutMsgValidateBasicNoTo(m) ==
    IF Len(m.From) # AddrLen THEN "address length should be 20"
    ELSE IF ~CoinIsPositive(m.Amount) THEN "amount should be positive"
    ELSE IF m.ExpireTime <= 0 THEN "expire time should be larger than 0"
    ELSE "nil"

\* func (msg TransferOutMsg) ValidateBasic() error: the error text, "nil" for none.
TransferOutMsgValidateBasic(m) ==
    IF Len(m.From) # AddrLen THEN "address length should be 20"
    ELSE IF IsEmpty(m.To) THEN "to address should not be empty"
    ELSE IF ~CoinIsPositive(m.Amount) THEN "amount should be positive"
    ELSE IF m.ExpireTime <= 0 THEN "expire time should be larger than 0"
    ELSE "nil"

\* func (msg TransferOutMsg) GetSignBytes() []byte: json.Marshal(msg)
TransferOutMsgGetSignBytes(m) ==
    JsonObject([i \in 1..Len(TransferOutMsgFields) |->
        <<TransferOutMsgJsonTag(TransferOutMsgFields[i]),
          TransferOutMsgFieldJSON(m, TransferOutMsgFields[i])>>])

----------------------------------------------------------------------------
(* Messages as a state machine: a caller builds one message around the     *)
(* address it holds, by the constructor or by a struct literal, and then   *)
(* calls the message's methods in any order.                               *)

NoMsg == [type |-> "none"]

FromInputs == {<<>>, Pattern(AddrLen - 1), Pattern(AddrLen), Pattern(AddrLen + 1)}

SymbolInputs == {<<>>, <<"B", "N", "B">>}

AmountInputs == {-1, 0, 100000000}

DecimalsInputs == {-1, 0, 8}

ExpireTimeInputs == {-1, 0, 1600000000}

CoinInputs == {[Denom |-> <<"B", "N", "B">>, Amount |-> a] : a \in AmountInputs}

\* Orders in which a caller's struct literal may list the fields.
BindMsgLiteralOrders ==
    {<<"From", "Symbol", "Amount", "ContractAddress", "ContractDecimals", "ExpireTime">>,
     <<"ExpireTime", "ContractDecimals", "ContractAddress", "Amount", "Symbol", "From">>}

TransferOutMsgLiteralOrders ==
    {<<"ExpireTime", "Amount", "To", "From">>, <<"To", "From", "ExpireTime", "Amount">>}

MsgInit ==
    /\ addr \in InitAddrs
    /\ msg = NoMsg
    /\ op = "init"
    /\ arg = <<>>
    /\ ret = <<>>
    /\ err = FALSE

\* msg = NewBindMsg(from, symbol, amount, addr, contractDecimals, expireTime)
DoNewBindMsg ==
    /\ msg = NoMsg
    /\ \E from \in FromInputs, symbol \in SymbolInputs, amount \in AmountInputs,
          contractDecimals \in DecimalsInputs, expireTime \in ExpireTimeInputs :
            msg' = NewBindMsg(from, symbol, amount, addr, contractDecimals, expireTime)
    /\ op' = "NewBindMsg"
    /\ arg' = <<>>
    /\ ret' = msg'
    /\ err' = FALSE
    /\ UNCHANGED addr

\* msg = BindMsg{...} with the fields listed in some other order
DoBindMsgLiteral ==
    /\ msg = NoMsg
    /\ \E order \in BindMsgLiteralOrders,
          from \in FromInputs, symbol \in SymbolInputs, amount \in AmountInputs,
          contractDecimals \in DecimalsInputs, expireTime \in ExpireTimeInputs :
            /\ msg' = KeyedLiteral(ZeroBindMsg, order,
                        [From |-> from, Symbol |-> symbol, Amount |-> amount,
                         ContractAddress |-> addr, ContractDecimals |-> contractDecimals,
                         ExpireTime |-> expireTime])
            /\ arg' = order
    /\ op' = "BindMsgLiteral"
    /\ ret' = msg'
    /\ err' = FALSE
    /\ UNCHANGED addr

\* msg = NewTransferOutMsg(from, addr, amount, expireTime)
DoNewTransferOutMsg ==
    /\ msg = NoMsg
    /\ \E from \in FromInputs, amount \in CoinInputs, expireTime \in ExpireTimeInputs :
            msg' = NewTransferOutMsg(from, addr, amount, expireTime)
    /\ op' = "NewTransferOutMsg"
    /\ arg' = <<>>
    /\ ret' = msg'
    /\ err' = FALSE
    /\ UNCHANGED addr

\* msg = TransferOutMsg{...} with the fields listed in some other order
DoTransferOutMsgLiteral ==
    /\ msg = NoMsg
    /\ \E order \in TransferOutMsgLiteralOrders,
          from \in FromInputs, amount \in CoinInputs, expireTime \in ExpireTimeInputs :
            /\ msg' = KeyedLiteral(ZeroTransferOutMsg, order,
                        [From |-> from, To |-> addr, Amount |-> amount,
                         ExpireTime |-> expireTime])
            /\ arg' = order
    /\ op' = "TransferOutMsgLiteral"
    /\ ret' = msg'
    /\ err' = FALSE
    /\ UNCHANGED addr

\* msg.GetSigners() on a BindMsg
DoBindMsgGetSigners ==
    /\ msg.type = "BindMsg"
    /\ op' = "BindMsg.GetSigners"
    /\ arg' = <<>>
    /\ ret' = BindMsgGetSigners(msg)
    /\ err' = FALSE
    /\ UNCHANGED <<addr, msg>>

\* msg.GetInvolvedAddresses() on a BindMsg
DoBindMsgGetInvolvedAddresses ==
    /\ msg.type = "BindMsg"
    /\ op' = "BindMsg.GetInvolvedAddresses"
    /\ arg' = <<>>
    /\ ret' = BindMsgGetInvolvedAddresses(msg)
    /\ err' = FALSE
    /\ UNCHANGED <<addr, msg>>

\* msg.ValidateBasic() on a BindMsg
DoBindMsgValidateBasic ==
    /\ msg.type = "BindMsg"
    /\ op' = "BindMsg.ValidateBasic"
    /\ arg' = <<>>
    /\ ret' = BindMsgValidateBasic(msg)
    /\ err' = (ret' # "nil")
    /\ UNCHANGED <<addr, msg>>

\* msg.GetSignBytes() on a BindMsg
DoBindMsgGetSignBytes ==
    /\ msg.type = "BindMsg"
    /\ op' = "BindMsg.GetSignBytes"
    /\ arg' = <<>>
    /\ ret' = BindMsgGetSignBytes(msg)
    /\ err' = FALSE
    /\ UNCHANGED <<addr, msg>>

\* msg.GetSigners() on a TransferOutMsg
DoTransferOutMsgGetSigners ==
    /\ msg.type = "TransferOutMsg"
    /\ op' = "TransferOutMsg.GetSigners"
    /\ arg' = <<>>
    /\ ret' = TransferOutMsgGetSigners(msg)
    /\ err' = FALSE
    /\ UNCHANGED <<addr, msg>>

\* msg.GetInvolvedAddresses() on a TransferOutMsg
DoTransferOutMsgGetInvolvedAddresses ==
    /\ msg.type = "TransferOutMsg"
    /\ op' = "TransferOutMsg.GetInvolvedAddresses"
    /\ arg' = <<>>
    /\ ret' = TransferOutMsgGetInvolvedAddresses(msg)
    /\ err' = FALSE
    /\ UNCHANGED <<addr, msg>>

\* msg.ValidateBasic() on a TransferOutMsg
DoTransferOutMsgValidateBasic ==
    /\ msg.type = "TransferOutMsg"
    /\ op' = "TransferOutMsg.ValidateBasic"
    /\ arg' = <<>>
    /\ ret' = TransferOutMsgValidateBasic(msg)
    /\ err' = (ret' # "nil")
    /\ UNCHANGED <<addr, msg>>

\* msg.GetSignBytes() on a TransferOutMsg
DoTransferOutMsgGetSignBytes ==
    /\ msg.type = "TransferOutMsg"
    /\ op' = "TransferOutMsg.GetSignBytes"
    /\ arg' = <<>>
    /\ ret' = TransferOutMsgGetSignBytes(msg)
    /\ err' = FALSE
    /\ UNCHANGED <<addr, msg>>

MsgNext ==
    \/ DoNewBindMsg
    \/ DoBindMsgLiteral
    \/ DoNewTransferOutMsg
    \/ DoTransferOutMsgLiteral
    \/ DoBindMsgGetSigners
    \/ DoBindMsgGetInvolvedAddresses
    \/ DoBindMsgValidateBasic
    \/ DoBindMsgGetSignBytes
    \/ DoTransferOutMsgGetSigners
    \/ DoTransferOutMsgGetInvolvedAddresses
    \/ DoTransferOutMsgValidateBasic
    \/ DoTransferOutMsgGetSignBytes

MsgSpec == MsgInit /\ [][MsgNext]_vars


----------------------------------------------------------------------------
(* The address codec as a state machine: a caller holds one address and    *)
(* applies the operations of SmartChainAddress to it in any order.         *)

Init ==
    /\ addr \in InitAddrs
    /\ msg = NoMsg
    /\ op = "init"
    /\ arg = <<>>
    /\ ret = <<>>
    /\ err = FALSE

\* addr = NewSmartChainAddress(text); the text may be one String() returned.
DoNewSmartChainAddress ==
    \E text \in TextInputs \cup (IF op = "String" THEN {ret} ELSE {}) :
        /\ addr' = NewSmartChainAddress(text)
        /\ op' = "NewSmartChainAddress"
        /\ arg' = text
        /\ ret' = addr'
        /\ err' = FALSE
        /\ UNCHANGED msg

\* addr.SetBytes(b)
DoSetBytes ==
    \E b \in ByteInputs :
        /\ addr' = SetBytes(addr, b)
        /\ op' = "SetBytes"
        /\ arg' = b
        /\ ret' = <<>>
        /\ err' = FALSE
        /\ UNCHANGED msg

\* addr.IsEmpty()
DoIsEmpty ==
    /\ op' = "IsEmpty"
    /\ arg' = <<>>
    /\ ret' = IsEmpty(addr)
    /\ err' = FALSE
    /\ UNCHANGED <<addr, msg>>

\* addr.String()
DoString ==
    /\ op' = "String"
    /\ arg' = <<>>
    /\ ret' = String(addr)
    /\ err' = FALSE
    /\ UNCHANGED <<addr, msg>>

\* addr.MarshalJSON()
DoMarshalJSON ==
    /\ op' = "MarshalJSON"
    /\ arg' = <<>>
    /\ ret' = MarshalJSON(addr)
    /\ err' = FALSE
    /\ UNCHANGED <<addr, msg>>

\* addr.UnmarshalJSON(input); the input may be what MarshalJSON() returned.
DoUnmarshalJSON ==
    \E input \in JsonInputs \cup (IF op = "MarshalJSON" THEN {ret} ELSE {}) :
        LET r == UnmarshalJSON(addr, input)
        IN  /\ addr' = r.addr
                /\ op' = "UnmarshalJSON"
            /\ arg' = input
            /\ ret' = <<>>
            /\ err' = r.err
            /\ UNCHANGED msg

Next ==
    \/ DoNewSmartChainAddress
    \/ DoSetBytes
    \/ DoIsEmpty
    \/ DoString
    \/ DoMarshalJSON
    \/ DoUnmarshalJSON

Spec == Init /\ [][Next]_vars

----------------------------------------------------------------------------
(* Properties of the address codec.                                        *)

\* b right-aligned in 20 bytes: its trailing 20 bytes when it is longer,
\* otherwise b in the last Len(b) positions behind leading zeros.
RightAligned(b) ==
    [i \in 1..SmartChainAddressLen |->
        IF Len(b) > SmartChainAddressLen THEN b[Len(b) - SmartChainAddressLen + i]
        ELSE IF i > SmartChainAddressLen - Len(b) THEN b[i - (SmartChainAddressLen - Len(b))]
        ELSE 0]

\* C4: NewSmartChainAddress on a text that decodes to more than 20 bytes
\* keeps exactly the trailing 20 of them; on a text that decodes to n < 20
\* bytes the address holds them in its last n positions, zeros before.
Thm_C4 ==
    op = "NewSmartChainAddress" /\ ~HexDecode(arg).err =>
        LET d == HexDecode(arg).bytes
            n == Len(d)
        IN  /\ n > SmartChainAddressLen =>
                \A i \in 1..SmartChainAddressLen : addr[i] = d[n - SmartChainAddressLen + i]
            /\ n < SmartChainAddressLen =>
                /\ \A i \in 1..(SmartChainAddressLen - n) : addr[i] = 0
                /\ \A i \in 1..n : addr[SmartChainAddressLen - n + i] = d[i]

Wit_C4 ==
    /\ op = "NewSmartChainAddress"
    /\ ~HexDecode(arg).err
    /\ Len(HexDecode(arg).bytes) > SmartChainAddressLen
    /\ addr = SliceFrom(HexDecode(arg).bytes, Len(HexDecode(arg).bytes) - SmartChainAddressLen)

\* C5: after SetBytes(b) the address equals b right-aligned in 20 bytes with
\* every leading position zero, whatever the address held before.
Claim_C5 ==
    op = "SetBytes" => addr = RightAligned(arg)

Thm_C7 ==
    [][op = "String" /\ op' = "NewSmartChainAddress" /\ arg' = ret =>
            String(addr') = ret /\ addr' = addr]_vars

Wit_C7 ==
    /\ op = "NewSmartChainAddress"
    /\ Len(arg) = 2 * SmartChainAddressLen
    /\ ~HexDecode(arg).err
    /\ String(addr) = arg
    /\ \A i \in 1..SmartChainAddressLen : addr[i] = 255

\* C8: MarshalJSON returns a JSON string whose content is String(addr):
\* exactly 40 lowercase hexadecimal characters spelling the 20 raw bytes.
Thm_C8 ==
    op = "MarshalJSON" =>
        /\ err = FALSE
        /\ ret = Quote(String(addr))
        /\ Len(ret) = 2 * SmartChainAddressLen + 2
        /\ \A i \in 2..(Len(ret) - 1) : IsHexDigit(ret[i])
        /\ \A i \in 1..SmartChainAddressLen :
              16 * HexDigitValue(ret[2 * i]) + HexDigitValue(ret[2 * i + 1]) = addr[i]

Wit_C8 ==
    /\ op = "MarshalJSON"
    /\ Len(ret) = 2 * SmartChainAddressLen + 2
    /\ \E i \in 1..SmartChainAddressLen : addr[i] > 159

\* C9: IsEmpty is true exactly when all 20 bytes are zero.
Thm_C9 ==
    op = "IsEmpty" =>
        (ret <=> \A i \in 1..SmartChainAddressLen : addr[i] = 0)

Wit_C9 ==
    /\ op = "IsEmpty"
    /\ ret = FALSE
    /\ addr[1] # 0
    /\ \A i \in 2..SmartChainAddressLen : addr[i] = 0

----------------------------------------------------------------------------
(* Properties of the messages.                                             *)

AllZero(a) == \A i \in 1..Len(a) : a[i] = 0

\* C1: BindMsg.ValidateBasic returns an error exactly when the sender length
\* is not AddrLen, or the symbol is empty, or amount <= 0, or the contract
\* address is all zero, or contract decimals < 0, or expire time <= 0.
Thm_C1 ==
    op = "BindMsg.ValidateBasic" =>
        /\ err <=> (\/ Len(msg.From) # AddrLen
                    \/ Len(msg.Symbol) = 0
                    \/ msg.Amount <= 0
                    \/ AllZero(msg.ContractAddress)
                    \/ msg.ContractDecimals < 0
                    \/ msg.ExpireTime <= 0)
        /\ ~err <=> ret = "nil"

Wit_C1 ==
    /\ op = "BindMsg.ValidateBasic"
    /\ ~err
    /\ msg.ContractAddress[1] # 0
    /\ msg.ContractDecimals = 0

\* C2: TransferOutMsg.ValidateBasic returns an error exactly when the sender
\* length is wrong, or the destination is all zero, or the coin amount is
\* not strictly positive, or expire time <= 0.
Thm_C2 ==
    op = "TransferOutMsg.ValidateBasic" =>
        /\ err <=> (\/ Len(msg.From) # AddrLen
                    \/ AllZero(msg.To)
                    \/ msg.Amount.Amount <= 0
                    \/ msg.ExpireTime <= 0)
        /\ ~err <=> ret = "nil"

Wit_C2 ==
    /\ op = "TransferOutMsg.ValidateBasic"
    /\ err
    /\ AllZero(msg.To)
    /\ Len(msg.From) = AddrLen
    /\ msg.Amount.Amount > 0
    /\ msg.ExpireTime > 0

\* Reading a JSON text back: position i is outside every string when an
\* even number of quotes precedes it, and inside Depth(t, i) open braces.
IsQuote(t, j) == t[j] = "\"" /\ (j = 1 \/ t[j - 1] # "\\")

OutsideString(t, i) == Cardinality({j \in 1..(i - 1) : IsQuote(t, j)}) % 2 = 0

Depth(t, i) ==
    Cardinality({j \in 1..(i - 1) : t[j] = "{" /\ OutsideString(t, j)})
        - Cardinality({j \in 1..(i - 1) : t[j] = "}" /\ OutsideString(t, j)})

\* The colons that follow the member names of the outermost object.
KeyColons(t) == {i \in 2..Len(t) : t[i] = ":" /\ OutsideString(t, i) /\ Depth(t, i) = 1}

\* The string that ends right before position i.
StringBefore(t, i) ==
    LET open == CHOOSE j \in 1..(i - 2) :
                    /\ IsQuote(t, j)
                    /\ \A k \in (j + 1)..(i - 2) : ~IsQuote(t, k)
    IN  SubSeq(t, open + 1, i - 2)

\* The member names of the outermost JSON object of a text, in order.
KeysOf(t) ==
    LET colons == KeyColons(t)
    IN  [k \in 1..Cardinality(colons) |->
            StringBefore(t, CHOOSE i \in colons : Cardinality({q \in colons : q < i}) = k - 1)]

BindDocumentedKeys ==
    << <<"f", "r", "o", "m">>, <<"s", "y", "m", "b", "o", "l">>, <<"a", "m", "o", "u", "n", "t">>,
       <<"c", "o", "n", "t", "r", "a", "c", "t", "_", "a", "d", "d", "r", "e", "s", "s">>,
       <<"c", "o", "n", "t", "r", "a", "c", "t", "_", "d", "e", "c", "i", "m", "a", "l", "s">>,
       <<"e", "x", "p", "i", "r", "e", "_", "t", "i", "m", "e">> >>

TransferOutDocumentedKeys ==
    << <<"f", "r", "o", "m">>, <<"t", "o">>, <<"a", "m", "o", "u", "n", "t">>,
       <<"e", "x", "p", "i", "r", "e", "_", "t", "i", "m", "e">> >>

\* C3: GetSignBytes renders the fields in the documented fixed order (from,
\* symbol, amount, contract_address, contract_decimals, expire_time for
\* BindMsg; from, to, amount, expire_time for TransferOutMsg), and the bytes
\* are those of any message holding the same field values, in whatever
\* order its fields were supplied at construction.
Thm_C3 ==
    /\ op = "BindMsg.GetSignBytes" =>
        /\ err = FALSE
        /\ KeysOf(ret) = BindDocumentedKeys
        /\ ret[1] = "{" /\ ret[Len(ret)] = "}"
        /\ \A order \in BindMsgLiteralOrders :
              BindMsgGetSignBytes(KeyedLiteral(ZeroBindMsg, order, msg)) = ret
    /\ op = "TransferOutMsg.GetSignBytes" =>
        /\ err = FALSE
        /\ KeysOf(ret) = TransferOutDocumentedKeys
        /\ ret[1] = "{" /\ ret[Len(ret)] = "}"
        /\ \A order \in TransferOutMsgLiteralOrders :
              TransferOutMsgGetSignBytes(KeyedLiteral(ZeroTransferOutMsg, order, msg)) = ret

Wit_C3 ==
    /\ op = "BindMsg.GetSignBytes"
    /\ KeysOf(ret) = BindDocumentedKeys
    /\ msg.Amount = 100000000
    /\ Len(msg.Symbol) = 3
    /\ ~AllZero(msg.ContractAddress)

\* C10: for every BindMsg and TransferOutMsg, valid or not, GetSigners and
\* GetInvolvedAddresses each return exactly one element, the sender.
Thm_C10 ==
    op \in {"BindMsg.GetSigners", "BindMsg.GetInvolvedAddresses",
            "TransferOutMsg.GetSigners", "TransferOutMsg.GetInvolvedAddresses"} =>
        /\ Len(ret) = 1
        /\ ret[1] = msg.From
        /\ ret = <<msg.From>>

Wit_C10 ==
    /\ op = "TransferOutMsg.GetInvolvedAddresses"
    /\ ret = <<msg.From>>
    /\ Len(msg.From) # AddrLen
    /\ AllZero(msg.To)

====
